---- MODULE Spec2Model ----
(***************************************************************************)
(* Ridge regression notebook (notebooks/ridge_regression.ipynb).           *)
(*                                                                         *)
(* class Ridge keeps two attributes: _lambda, set by __init__, and         *)
(* _coeff_hat, which exists only once fit has run to its last line.        *)
(* fit stacks the rows [1, x, x^2], forms XTX = X^T X + lambda*I and       *)
(* stores inv(XTX) X^T Y.  Cell 7 reads _coeff_hat[0..2] to predict.       *)
(*                                                                         *)
(* Numbers.  Inputs are integers.  On them every sum and product of fit    *)
(* is exact in double precision, so a real value is carried here as an     *)
(* exact fraction (numerator matrix over one positive denominator); the    *)
(* quotient of the final division is what the code holds up to rounding.   *)
(* Rounding decides the OUTCOME in two places.  np.linalg.inv on a matrix  *)
(* whose determinant is 0: LAPACK raises only when a pivot of the LU       *)
(* factorisation is exactly 0.0, see ExactZeroPivot below.  And the sum    *)
(* X^T X + lambda*I for a factor as small as 1e-20, which a nonzero entry  *)
(* of the diagonal absorbs, see Tiny and RegularizedGram below.            *)
(***************************************************************************)
EXTENDS Integers, Sequences, FiniteSets, TLC

VARIABLES lam, coeff_hat, call, raised, value

vars == <<lam, coeff_hat, call, raised, value>>

----------------------------------------------------------------------------
(* Bounds of the model.                                                    *)

\* most training pairs in one call of SpecFit
MaxN == 3
\* regularization factors of SpecFit range over -1..MaxLam
MaxLam == 1
\* longest argument of fit in Spec
MaxCallN == 2

----------------------------------------------------------------------------
(* Integer helpers.                                                        *)

Abs(n) == IF n < 0 THEN -n ELSE n

RECURSIVE GCD(_, _)
GCD(a, b) == IF b = 0 THEN a ELSE GCD(b, a % b)

\* n > 0 with every factor 2 removed
RECURSIVE OddPart(_)
OddPart(n) == IF n % 2 = 0 THEN OddPart(n \div 2) ELSE n

\* a/p (p # 0) is a dyadic rational: the double division a/p is exact
IsDyadic(a, p) == OddPart(Abs(p) \div GCD(Abs(p), Abs(a))) = 1

\* the integer part of log2(n), n >= 1
RECURSIVE Log2(_)
Log2(n) == IF n < 2 THEN 0 ELSE 1 + Log2(n \div 2)

\* 2^k
RECURSIVE TwoTo(_)
TwoTo(k) == IF k = 0 THEN 1 ELSE 2 * TwoTo(k - 1)

\* 2^e modulo p
RECURSIVE TwoToMod(_, _)
TwoToMod(e, p) == IF e = 0 THEN 1 % p ELSE (2 * TwoToMod(e - 1, p)) % p

\* the sum of f[i] over i in lo..hi
RECURSIVE SumTo(_, _, _)
SumTo(f, lo, hi) == IF lo > hi THEN 0 ELSE f[lo] + SumTo(f, lo + 1, hi)

----------------------------------------------------------------------------
(* Matrices: a matrix is a sequence of rows, a row a sequence of numbers.  *)

Rows(M) == Len(M)
Cols(M) == Len(M[1])

\* the tuple <<f[1], ..., f[n]>>: each entry is computed once, here
RECURSIVE Tuple(_, _)
Tuple(f, n) == IF n = 0 THEN <<>> ELSE Append(Tuple(f, n - 1), f[n])

\* the matrix of r rows and c columns whose entry (i, j) is f[i][j]
Matrix(f, r, c) == Tuple([i \in 1..r |-> Tuple(f[i], c)], r)

\* np.transpose
Transpose(M) ==
    Matrix([j \in 1..Cols(M) |-> [i \in 1..Rows(M) |-> M[i][j]]], Cols(M), Rows(M))

\* np.matmul for conforming shapes: Cols(A) = Rows(B)
MatMul(A, B) ==
    Matrix([i \in 1..Rows(A) |->
               [j \in 1..Cols(B) |->
                   SumTo([k \in 1..Cols(A) |-> A[i][k] * B[k][j]], 1, Cols(A))]],
           Rows(A), Cols(B))

\* np.identity(k)
Identity(k) == Matrix([i \in 1..k |-> [j \in 1..k |-> IF i = j THEN 1 ELSE 0]], k, k)

\* c * M
Scale(c, M) ==
    Matrix([i \in 1..Rows(M) |-> [j \in 1..Cols(M) |-> c * M[i][j]]], Rows(M), Cols(M))

\* A + B
MatAdd(A, B) ==
    Matrix([i \in 1..Rows(A) |-> [j \in 1..Cols(A) |-> A[i][j] + B[i][j]]],
           Rows(A), Cols(A))

\* determinant of a 3x3 matrix, along the first row
Det3(A) ==
      A[1][1] * (A[2][2] * A[3][3] - A[2][3] * A[3][2])
    - A[1][2] * (A[2][1] * A[3][3] - A[2][3] * A[3][1])
    + A[1][3] * (A[2][1] * A[3][2] - A[2][2] * A[3][1])

\* the 2x2 minor of A without row i and column j
Minor(A, i, j) ==
    LET r == IF i = 1 THEN <<2, 3>> ELSE IF i = 2 THEN <<1, 3>> ELSE <<1, 2>>
        c == IF j = 1 THEN <<2, 3>> ELSE IF j = 2 THEN <<1, 3>> ELSE <<1, 2>>
    IN  A[r[1]][c[1]] * A[r[2]][c[2]] - A[r[1]][c[2]] * A[r[2]][c[1]]

\* adjugate: Adj3(A) * A = Det3(A) * I
Adj3(A) ==
    Matrix([i \in 1..3 |-> [j \in 1..3 |->
               (IF (i + j) % 2 = 0 THEN 1 ELSE -1) * Minor(A, j, i)]], 3, 3)

----------------------------------------------------------------------------
(* Real values.                                                            *)

\* the real matrix num/den, den > 0
Exact(num, den) == [kind |-> "exact", num |-> num, den |-> den]

\* a matrix of doubles that rounding errors alone decide (see LinalgInv)
Noise == [kind |-> "noise", num |-> <<>>, den |-> 0]

\* the real matrix num/den + 1e20 * huge, huge # 0: an entry with a part in
\* huge is a double of magnitude 1e20, which absorbs its part in num/den
Scaled(num, den, huge) == [kind |-> "scaled", num |-> num, den |-> den, huge |-> huge]

\* the matrix M with 0 where H has a nonzero entry
ZeroWhere(M, H) ==
    Matrix([i \in 1..Rows(M) |->
               [j \in 1..Cols(M) |-> IF H[i][j] # 0 THEN 0 ELSE M[i][j]]],
           Rows(M), Cols(M))

\* np.matmul of a real matrix and an integer matrix
RealMatMul(R, B) ==
    IF R.kind = "noise" THEN Noise
    ELSE IF R.kind = "scaled"
    THEN LET H == MatMul(R.huge, B)
             N == MatMul(R.num, B)
         IN  IF H = Scale(0, H) THEN Exact(N, R.den)
             ELSE Scaled(ZeroWhere(N, H), R.den, H)
    ELSE Exact(MatMul(R.num, B), R.den)

\* gcd of d and the entries i.. of the sequence f
RECURSIVE GCDSeq(_, _, _)
GCDSeq(f, i, d) == IF i > Len(f) THEN d ELSE GCDSeq(f, i + 1, GCD(d, Abs(f[i])))

\* gcd of d and all entries of the integer matrix M
RECURSIVE GCDAll(_, _, _)
GCDAll(M, i, d) == IF i > Rows(M) THEN d ELSE GCDAll(M, i + 1, GCDSeq(M[i], 1, d))

\* the same real matrix in lowest terms: one value, one representation
Reduce(R) ==
    IF R.kind # "exact" THEN R
    ELSE LET g == GCDAll(R.num, 1, R.den)
         IN  Exact(Matrix([i \in 1..Rows(R.num) |->
                              [j \in 1..Cols(R.num) |-> R.num[i][j] \div g]],
                          Rows(R.num), Cols(R.num)),
                   R.den \div g)

----------------------------------------------------------------------------
(* Regularization factors: the double mant * 10^exp, with exp = 0 for a    *)
(* whole number and exp < 0 for a factor so small that the double sum with *)
(* a nonzero whole number returns that number.                             *)

Factor(mant, exp) == [mant |-> mant, exp |-> exp]

\* the double of the whole number k
Whole(k) == Factor(k, 0)

\* 1e-20: positive, and less than half the spacing of the doubles at every
\* nonzero whole number
Tiny == Factor(1, -20)

----------------------------------------------------------------------------
(* np.linalg.inv.                                                          *)

\* idamax: the first index of the entry of largest magnitude
PivotIndex(c) ==
    CHOOSE i \in 1..Len(c) :
        /\ \A j \in 1..Len(c) : Abs(c[j]) <= Abs(c[i])
        /\ \A j \in 1..(i - 1) : Abs(c[j]) < Abs(c[i])

\* bits of the significand of a float64
Precision == 53

\* The rounding of the reciprocal of an integer p > 2 that is no power of 2:
\* with k = Log2(p), the double nearest to 1/p is m / 2^(Precision + k) for
\* the integer m nearest to 2^(Precision + k) / p, and the value here is
\* 2^(Precision + k) - m * p, between -p/2 and p/2.
ReciprocalResidue(p) ==
    LET rho == TwoToMod(Precision + Log2(p), p)
    IN  IF 2 * rho > p THEN rho - p ELSE rho

\* For a, p > 0 with a/p dyadic and p no power of 2: a * (1.0 / p) rounds to
\* a/p.  Powers of 2 are moved between a and p until 1 <= a/p < 2; the
\* product is then a/p * (1 - rho / 2^(Precision + k)), and it rounds to a/p
\* when it is no farther from a/p than half the gap to the next double on
\* its side (ties go to a/p, the double with the even significand).
RECURSIVE RoundsToQuotient(_, _)
RoundsToQuotient(a, p) ==
    IF a < p THEN RoundsToQuotient(2 * a, p)
    ELSE IF a >= 2 * p THEN RoundsToQuotient(a, 2 * p)
    ELSE LET rho == ReciprocalResidue(p)
         IN  IF rho > 0 /\ a = p
             THEN 2 * rho <= TwoTo(Log2(p))
             ELSE a * Abs(rho) <= TwoTo(Log2(p)) * p

\* The multiplier of a row with leading entry a under the pivot p # 0 is
\* the exact a/p in every build of LAPACK: dgetf2 and dgetrf2 scale the
\* column by the rounded reciprocal, a * (1.0 / p), other builds divide, a / p.
ExactMultiplier(a, p) ==
    \/ a = 0
    \/ /\ IsDyadic(a, p)
       /\ \/ OddPart(Abs(p)) = 1
          \/ RoundsToQuotient(Abs(a), Abs(p))

\* LU with partial pivoting (dgetrf) of a 3x3 integer matrix of determinant 0
\* meets a pivot that is exactly 0.0 whatever the LAPACK build (multipliers
\* by division or by the reciprocal, fused multiply-add or not, updates by
\* rank one or by dot products): every rounded operation on the way to that
\* pivot is exact.  Two equal rows are not enough: their common pivot q has
\* the multiplier q * (1.0 / q), which need not be 1.
\*   r, p   pivot row and pivot of column 1
\*   o      the rows at positions 2 and 3 after rows 1 and r are swapped
\*   B(i)   row i after the elimination of column 1, times the power of 2
\*          in p (the odd part of p divides A[i][1] when exact(i))
ExactZeroPivot(A) ==
    LET r == PivotIndex(<<A[1][1], A[2][1], A[3][1]>>)
        p == A[r][1]
        o == IF r = 1 THEN <<2, 3>> ELSE IF r = 2 THEN <<1, 3>> ELSE <<2, 1>>
        exact(i) == ExactMultiplier(A[i][1], p)
        odd == OddPart(Abs(p))
        B(i) == << (p \div odd) * A[i][2] - (A[i][1] \div odd) * A[r][2],
                   (p \div odd) * A[i][3] - (A[i][1] \div odd) * A[r][3] >>
        s == IF Abs(B(o[2])[1]) > Abs(B(o[1])[1]) THEN 2 ELSE 1
        q == B(o[s])[1]
    IN  \/ p = 0
        \/ /\ p # 0
           /\ \/ \E i \in {o[1], o[2]} : exact(i) /\ B(i) = <<0, 0>>
              \/ /\ exact(o[1])
                 /\ exact(o[2])
                 /\ (q = 0 \/ ExactMultiplier(B(o[3 - s])[1], q))

\* np.linalg.inv(S) for a 3x3 matrix S = S.int + 1e-20 * S.tiny of doubles,
\* S.int of whole numbers: the results it can have.
\* An entry of S.tiny is the only entry of its row and of its column (see
\* RegularizedGram), so the factorisation meets it as a pivot with multipliers
\* 0, as it would meet the entry 1 or -1 of A, and the inverse holds its
\* reciprocal there.
\* LinAlgError is raised only when the factorisation meets a pivot equal to
\* 0.0.  For a singular A that is certain when ExactZeroPivot(A); otherwise
\* the last pivot is a rounding residue whose value depends on the LAPACK
\* build (multipliers by division or by the reciprocal, operation order,
\* fused multiply-add): where it is not 0.0, inv raises nothing and returns a
\* matrix of rounding noise.
LinalgInv(S) ==
    LET A   == MatAdd(S.int, S.tiny)
        d   == Det3(A)
        adj == Scale(IF d < 0 THEN -1 ELSE 1, Adj3(A))
    IN  IF d # 0
        THEN {[err |-> "none",
               inv |-> IF S.tiny = Scale(0, S.tiny)
                       THEN Exact(adj, Abs(d))
                       ELSE Scaled(ZeroWhere(adj, S.tiny), Abs(d), S.tiny)]}
        ELSE IF ExactZeroPivot(A)
        THEN {[err |-> "LinAlgError", inv |-> Noise]}
        ELSE {[err |-> "LinAlgError", inv |-> Noise],
              [err |-> "none", inv |-> Noise]}

----------------------------------------------------------------------------
(* class Ridge.                                                            *)

\* the attribute _coeff_hat does not exist
Absent == [kind |-> "absent", num |-> <<>>, den |-> 0]

\* no value was returned
NoValue == [kind |-> "none", num |-> <<>>, den |-> 0]

\* __init__ replacing a negative factor by 0
init_clamped(l) == [lam |-> IF l.mant < 0 THEN Whole(0) ELSE l, coeff_hat |-> Absent]

\* Ridge.__init__(lam): the attributes of the new object
init(l) == [lam |-> l, coeff_hat |-> Absent]

\* _x_bar with the linear term first
x_bar_swapped(x) == <<x, 1, x * x>>

\* Ridge._x_bar: np.hstack(([1.0], x, np.square(x)))
x_bar(x) == <<1, x, x * x>>

\* the design matrix: np.vstack of the rows x_bar(x), in input order
DesignMatrix(x_train) ==
    Tuple([i \in 1..Len(x_train) |-> x_bar(x_train[i])], Len(x_train))

\* the target column: np.vstack of the scalars y, in input order
TargetColumn(y_train) ==
    Tuple([i \in 1..Len(y_train) |-> <<y_train[i]>>], Len(y_train))

\* XTX without the regularization term
RegularizedGram_unregularized(l, X) ==
    LET G == MatMul(Transpose(X), X)
    IN  [int |-> G, tiny |-> Scale(0, G)]

\* XTX of Ridge.fit: np.matmul(XT, X) + self._lambda * np.identity(X.shape[1]),
\* as the matrix int + 1e-20 * tiny.  A whole factor is added exactly.  A
\* factor with exp < 0 is lost in the sum with a nonzero entry and is the
\* sum with an entry 0; a diagonal entry of X^T X is 0 only where its whole
\* row and column are.
RegularizedGram(l, X) ==
    LET G == MatMul(Transpose(X), X)
        I == Identity(Cols(X))
    IN  IF l.exp = 0
        THEN [int |-> MatAdd(G, Scale(l.mant, I)), tiny |-> Scale(0, I)]
        ELSE [int  |-> G,
              tiny |-> Matrix([i \in 1..Rows(G) |-> [j \in 1..Cols(G) |->
                                  IF G[i][j] = 0 THEN l.mant * I[i][j] ELSE 0]],
                              Rows(G), Cols(G))]

\* the last statement of Ridge.fit, given the result I of np.linalg.inv:
\* np.matmul of (3 x n) and (m x 1) raises ValueError unless n = m
Solve(I, XT, Y) ==
    IF I.err # "none"
    THEN [raised |-> I.err, computed |-> {"X", "Y", "XT", "XTX"},
          coeff |-> Absent]
    ELSE IF Cols(XT) # Rows(Y)
    THEN [raised |-> "ValueError",
          computed |-> {"X", "Y", "XT", "XTX", "inv", "inv_XT"},
          coeff |-> Absent]
    ELSE [raised |-> "none",
          computed |-> {"X", "Y", "XT", "XTX", "inv", "inv_XT", "coeff"},
          coeff |-> Reduce(RealMatMul(RealMatMul(I.inv, XT), Y))]

\* Ridge.fit(x_train, y_train) on an estimator whose _lambda is l: the
\* outcomes it can have.  An outcome is the exception raised ("none" when
\* fit returns), the intermediate values bound by then, and the value
\* assigned to _coeff_hat (Absent: no assignment was reached).
\* np.vstack of an empty list raises ValueError.
fit(l, x_train, y_train) ==
    IF Len(x_train) = 0
    THEN {[raised |-> "ValueError", computed |-> {}, coeff |-> Absent]}
    ELSE IF Len(y_train) = 0
    THEN {[raised |-> "ValueError", computed |-> {"X"}, coeff |-> Absent]}
    ELSE
      LET X   == DesignMatrix(x_train)
          Y   == TargetColumn(y_train)
          XT  == Transpose(X)
          XTX == RegularizedGram(l, X)
      IN  {Solve(I, XT, Y) : I \in LinalgInv(XTX)}

\* cell 7: _coeff_hat[0] + _coeff_hat[1]*x + _coeff_hat[2]*x**2, for the
\* coefficients a fit can store (Exact or Noise: the rows of XT are 0 where
\* the inverse has a part of magnitude 1e20)
predict(c, x) ==
    IF c.kind = "noise" THEN Noise
    ELSE Reduce(Exact(<< <<c.num[1][1] + c.num[2][1] * x + c.num[3][1] * x * x>> >>,
                      c.den))

\* cell 8: np.linalg.norm(_coeff_hat), squared, as the fraction num/den
NormSquared(c) ==
    [num |-> SumTo([i \in 1..3 |-> c.num[i][1] * c.num[i][1]], 1, 3),
     den |-> c.den * c.den]

----------------------------------------------------------------------------
(* Inputs.                                                                 *)

\* the sequences over S of length 0..n
SeqsUpTo(S, n) == UNION {[1..k -> S] : k \in 0..n}

\* regularization factors of SpecFit: whole numbers, whose mant is the
\* factor itself; the constructor takes any number
Lambdas == {Whole(k) : k \in -1..MaxLam}

\* regularization factors of SpecPositive: factors greater than 0
PositiveLambdas == {Tiny} \cup {Whole(k) : k \in 1..MaxLam}

\* training inputs and targets of SpecFit
XVals == {-1, 0, 1, 2}
YVals == {-1, 0, 1}

\* training data of SpecFit: n <= MaxN pairs, as the two columns passed to fit
TrainingSets == UNION {[1..n -> XVals] \X [1..n -> YVals] : n \in 0..MaxN}

\* arguments of fit in Spec: any two sequences, equally long or not
CallX == SeqsUpTo({1, 2}, MaxCallN)
CallY == SeqsUpTo({1}, MaxCallN)

\* regularization factors of Spec
CallLambdas == {Whole(-1), Whole(0), Whole(1)}

\* inputs of a prediction
PredictX == {-1, 0, 2}

----------------------------------------------------------------------------
(* State.                                                                  *)
(*   lam        Ridge._lambda                                              *)
(*   coeff_hat  Ridge._coeff_hat, Absent until a fit has assigned it       *)
(*   call       the most recent operation and its arguments                *)
(*   raised     the exception that operation raised, "none" if it returned *)
(*   value      the value that operation produced, NoValue if none         *)

\* op "init": x is the argument lam; "fit": x_train, y_train and what the
\* call computed; "predict": x is the input, as the double Whole(x)
Call(op, x_train, y_train, x, computed) ==
    [op |-> op, x_train |-> x_train, y_train |-> y_train, x |-> x,
     computed |-> computed]

\* ridge = Ridge(l)
Construct(l) ==
    /\ lam' = init(l).lam
    /\ coeff_hat' = init(l).coeff_hat
    /\ call' = Call("init", <<>>, <<>>, l, {})
    /\ raised' = "none"
    /\ value' = NoValue

\* fit keeping the coefficients of the first fit that returned
FitCall_keepfirst(x_train, y_train) ==
    \E r \in fit(lam, x_train, y_train) :
        /\ call' = Call("fit", x_train, y_train, Whole(0), r.computed)
        /\ raised' = r.raised
        /\ coeff_hat' = IF r.raised = "none" /\ coeff_hat.kind = "absent"
                        THEN r.coeff ELSE coeff_hat
        /\ value' = NoValue
        /\ UNCHANGED lam

\* fit deleting _coeff_hat before it computes
FitCall_reset(x_train, y_train) ==
    \E r \in fit(lam, x_train, y_train) :
        /\ call' = Call("fit", x_train, y_train, Whole(0), r.computed)
        /\ raised' = r.raised
        /\ coeff_hat' = r.coeff
        /\ value' = NoValue
        /\ UNCHANGED lam

\* ridge.fit(x_train, y_train): _coeff_hat is assigned by the last statement
\* only; an exception leaves every attribute as it was
FitCall(x_train, y_train) ==
    \E r \in fit(lam, x_train, y_train) :
        /\ call' = Call("fit", x_train, y_train, Whole(0), r.computed)
        /\ raised' = r.raised
        /\ coeff_hat' = IF r.raised = "none" THEN r.coeff ELSE coeff_hat
        /\ value' = NoValue
        /\ UNCHANGED lam

\* a prediction that takes missing coefficients for zeros
PredictCall_default(x) ==
    /\ call' = Call("predict", <<>>, <<>>, Whole(x), {})
    /\ raised' = "none"
    /\ value' = IF coeff_hat.kind = "absent" THEN Exact(<< <<0>> >>, 1)
                ELSE predict(coeff_hat, x)
    /\ UNCHANGED <<lam, coeff_hat>>

\* cell 7 at x: reading ridge._coeff_hat raises AttributeError while the
\* attribute does not exist
PredictCall(x) ==
    /\ call' = Call("predict", <<>>, <<>>, Whole(x), {})
    /\ raised' = IF coeff_hat.kind = "absent" THEN "AttributeError" ELSE "none"
    /\ value' = IF coeff_hat.kind = "absent" THEN NoValue ELSE predict(coeff_hat, x)
    /\ UNCHANGED <<lam, coeff_hat>>

\* the state after ridge = Ridge(l)
Constructed(l) ==
    /\ lam = init(l).lam
    /\ coeff_hat = init(l).coeff_hat
    /\ call = Call("init", <<>>, <<>>, l, {})
    /\ raised = "none"
    /\ value = NoValue

----------------------------------------------------------------------------
(* Spec: the life cycle of the notebook's variable ridge.                  *)

Init == \E l \in CallLambdas : Constructed(l)

Rebind == \E l \in CallLambdas : Construct(l)

Fit == \E x_train \in CallX, y_train \in CallY : FitCall(x_train, y_train)

Predict == \E x \in PredictX : PredictCall(x)

Next == Rebind \/ Fit \/ Predict

Spec == Init /\ [][Next]_vars

----------------------------------------------------------------------------
(* SpecFit: one fit of a training set on a fresh estimator, then one       *)
(* prediction.                                                             *)

InitFit == \E l \in Lambdas : Constructed(l)

FitOnce ==
    /\ call.op = "init"
    /\ \E d \in TrainingSets : FitCall(d[1], d[2])

PredictOnce ==
    /\ call.op = "fit"
    /\ \E x \in PredictX : PredictCall(x)

NextFit == FitOnce \/ PredictOnce

SpecFit == InitFit /\ [][NextFit]_vars

----------------------------------------------------------------------------
(* SpecPositive: SpecFit on an estimator whose factor is greater than 0.   *)

InitPositive == \E l \in PositiveLambdas : Constructed(l)

SpecPositive == InitPositive /\ [][NextFit]_vars

----------------------------------------------------------------------------
(* What the claims speak of, written from the formulas of the notebook's   *)
(* first cell and not from the code of fit.                                *)

\* the number of distinct values in a sequence
Distinct(xs) == Cardinality({xs[i] : i \in 1..Len(xs)})

\* x to the power k
RECURSIVE Power(_, _)
Power(x, k) == IF k = 0 THEN 1 ELSE x * Power(x, k - 1)

\* X^T X + l*I for the rows x_bar_i = [1, x_i, x_i^2]: entry (i, j) is the sum
\* of x^(i-1) * x^(j-1), plus l on the diagonal
NormalMatrix(l, xs) ==
    Matrix([i \in 1..3 |-> [j \in 1..3 |->
               SumTo([k \in 1..Len(xs) |-> Power(xs[k], i - 1) * Power(xs[k], j - 1)],
                     1, Len(xs))
               + (IF i = j THEN l ELSE 0)]], 3, 3)

\* X^T Y: entry i is the sum of x^(i-1) * y
NormalRhs(xs, ys) ==
    Matrix([i \in 1..3 |-> [j \in 1..1 |->
               SumTo([k \in 1..Len(xs) |-> Power(xs[k], i - 1) * ys[k]], 1, Len(xs))]],
           3, 1)

\* the most recent operation was fit, on n >= 1 training pairs
FittedPairs ==
    /\ call.op = "fit"
    /\ Len(call.x_train) >= 1
    /\ Len(call.x_train) = Len(call.y_train)

\* _coeff_hat is the column vector num/den of three numbers
IsVector3(c) ==
    /\ c.kind = "exact"
    /\ c.den > 0
    /\ Rows(c.num) = 3
    /\ \A i \in 1..3 : Len(c.num[i]) = 1

----------------------------------------------------------------------------
\* C1: after fit on n >= 1 pairs with lambda >= 0 and X^T X + lambda*I
\* invertible, fit has returned and _coeff_hat is the 3-vector theta with
\* (X^T X + lambda*I) theta = X^T Y, the rows of X being [1, x_i, x_i^2].
C1_NormalEquations ==
    (FittedPairs /\ lam.mant >= 0
       /\ Det3(NormalMatrix(lam.mant, call.x_train)) # 0)
    => /\ raised = "none"
       /\ IsVector3(coeff_hat)
       /\ MatMul(NormalMatrix(lam.mant, call.x_train), coeff_hat.num)
            = Scale(coeff_hat.den, NormalRhs(call.x_train, call.y_train))

\* a regularized fit of three pairs whose solution is not a vector of integers
C1_Witness ==
    /\ FittedPairs
    /\ lam = Whole(1)
    /\ Len(call.x_train) = 3
    /\ raised = "none"
    /\ coeff_hat.kind = "exact"
    /\ coeff_hat.den > 1

----------------------------------------------------------------------------
\* C2: a prediction on an estimator whose _coeff_hat no fit has assigned
\* raises the error of the unfitted model (AttributeError in the notebook)
\* and yields no value; a prediction that yields a value found the estimator
\* fitted; and only a fit that returns takes the estimator out of the
\* unfitted state.
C2_PredictNeedsFit ==
    [][ /\ (call'.op = "predict" /\ coeff_hat.kind = "absent")
            => (raised' = "AttributeError" /\ value' = NoValue)
        /\ (call'.op = "predict" /\ value' # NoValue)
            => (coeff_hat.kind # "absent" /\ raised' = "none")
        /\ (coeff_hat.kind = "absent" /\ coeff_hat'.kind # "absent")
            => (call'.op = "fit" /\ raised' = "none")
      ]_vars

\* a prediction was attempted on an estimator that no fit has fitted
C2_Witness ==
    /\ call.op = "predict"
    /\ coeff_hat.kind = "absent"
    /\ raised = "AttributeError"
    /\ value = NoValue

----------------------------------------------------------------------------
\* C3: after fit with lambda = 0 on pairs with fewer than three distinct x,
\* fit has raised the singularity error (LinAlgError) and _coeff_hat was not
\* assigned.
C3_SingularRaises ==
    (FittedPairs /\ lam = Whole(0) /\ Distinct(call.x_train) < 3)
    => (raised = "LinAlgError" /\ coeff_hat.kind = "absent")

----------------------------------------------------------------------------
\* C4: with lambda > 0 a fit on n >= 1 pairs has one possible outcome, which
\* is to return with _coeff_hat assigned: it never raises the singularity
\* error; and a prediction that follows returns the value that these
\* coefficients and x determine and leaves the coefficients alone.
C4_RegularizedNeverSingular ==
    [][ /\ (call'.op = "fit" /\ lam.mant > 0 /\ Len(call'.x_train) >= 1
              /\ Len(call'.x_train) = Len(call'.y_train))
            => /\ raised' = "none"
               /\ IsVector3(coeff_hat')
               /\ fit(lam, call'.x_train, call'.y_train)
                    = {[raised |-> "none", computed |-> call'.computed,
                        coeff |-> coeff_hat']}
        /\ (FittedPairs /\ lam.mant > 0 /\ call'.op = "predict")
            => /\ raised' = "none"
               /\ value'.kind = "exact"
               /\ value' = predict(coeff_hat, call'.x.mant)
               /\ coeff_hat' = coeff_hat
      ]_vars

----------------------------------------------------------------------------
\* C5: a fit that returns leaves in _coeff_hat what a fresh estimator with
\* the same lambda stores for the same arguments, whatever _coeff_hat held
\* before; and no operation on the estimator takes it from fitted back to
\* unfitted.
C5_RefitOverwrites ==
    [][ /\ (call'.op = "fit" /\ raised' = "none")
            => \E r \in fit(init(lam).lam, call'.x_train, call'.y_train) :
                  r.raised = "none" /\ coeff_hat' = r.coeff
        /\ (call'.op # "init" /\ coeff_hat.kind # "absent")
            => coeff_hat'.kind # "absent"
      ]_vars

\* a fit of the single input 2 returned and stored (1, 2, 4)/22
C5_Witness ==
    /\ call.op = "fit"
    /\ raised = "none"
    /\ call.x_train = <<2>>
    /\ coeff_hat = Exact(<< <<1>>, <<2>>, <<4>> >>, 22)

----------------------------------------------------------------------------
\* C6: no estimator holds a negative lambda, and no fit runs with one.
C6_NoNegativeLambda == lam.mant >= 0

\* C6, as the code has it: the constructor raises nothing and stores its
\* argument as it is, negative or not; no later operation changes lambda, so
\* fit runs with the lambda that was passed.
C6_LambdaStoredAsGiven ==
    [][ /\ call'.op = "init"
            => (raised' = "none" /\ lam' = call'.x /\ coeff_hat' = Absent)
        /\ call'.op # "init" => lam' = lam
      ]_vars

\* an estimator was constructed with lambda = -1 and a fit on it returned
C6_Witness ==
    /\ lam = Whole(-1)
    /\ call.op = "fit"
    /\ raised = "none"

----------------------------------------------------------------------------
\* C7: after fit on inputs and targets of different lengths, fit has raised
\* the shape error (ValueError) and had computed neither the product X^T X
\* nor an inverse.
C7_ShapeRejectedFirst ==
    (call.op = "fit" /\ Len(call.x_train) # Len(call.y_train))
    => /\ raised = "ValueError"
       /\ call.computed \cap {"XTX", "inv", "inv_XT"} = {}

----------------------------------------------------------------------------
\* a/b <= c/d for a, c >= 0 and b, d > 0, by continued fractions (no
\* cross product, which would leave the 32-bit range)
RECURSIVE FracLeq(_, _, _, _)
FracLeq(a, b, c, d) ==
    IF a \div b # c \div d THEN a \div b < c \div d
    ELSE IF a % b = 0 THEN TRUE
    ELSE IF c % d = 0 THEN FALSE
    ELSE FracLeq(d, c % d, b, a % b)

\* ||a|| <= ||b|| for two stored vectors, whatever the build: they are the
\* same vector, or a is the zero vector, or both are solutions of the normal
\* equations and their norms compare so.  The norm of a vector of rounding
\* noise is not bounded by the training data.
NormLeq(a, b) ==
    \/ a = b
    \/ a.kind = "exact" /\ NormSquared(a).num = 0
    \/ /\ a.kind = "exact"
       /\ b.kind = "exact"
       /\ FracLeq(NormSquared(a).num, NormSquared(a).den,
                  NormSquared(b).num, NormSquared(b).den)

\* C8: after a fit with lambda >= 0 that returned and stored theta, every
\* fit of the same pairs with a larger lambda that returns stores a vector
\* of norm <= ||theta||.
C8_NormShrinks ==
    (FittedPairs /\ lam.mant >= 0 /\ raised = "none")
    => \A l2 \in Lambdas :
         lam.mant <= l2.mant
         => \A r \in fit(l2, call.x_train, call.y_train) :
               r.raised = "none" => NormLeq(r.coeff, coeff_hat)

----------------------------------------------------------------------------
\* coefficients of the round trip
Coefficients == {-1, 0, 1}

\* the targets are exactly c0 + c1*x + c2*x^2
Generated(c0, c1, c2, xs, ys) ==
    \A i \in 1..Len(xs) : ys[i] = c0 + c1 * xs[i] + c2 * xs[i] * xs[i]

\* C9: after fit with lambda = 0 on pairs with at least three distinct x whose
\* targets are c0 + c1*x + c2*x^2, _coeff_hat is (c0, c1, c2) in that order.
C9_RoundTrip ==
    \A c0, c1, c2 \in Coefficients :
        (FittedPairs /\ lam = Whole(0) /\ Distinct(call.x_train) >= 3
           /\ Generated(c0, c1, c2, call.x_train, call.y_train))
        => /\ raised = "none"
           /\ coeff_hat = Exact(<< <<c0>>, <<c1>>, <<c2>> >>, 1)

\* the round trip of (1, 1, -1), whose three coefficients are told apart
C9_Witness ==
    /\ FittedPairs
    /\ lam = Whole(0)
    /\ Distinct(call.x_train) >= 3
    /\ Generated(1, 1, -1, call.x_train, call.y_train)
    /\ coeff_hat = Exact(<< <<1>>, <<1>>, <<-1>> >>, 1)

----------------------------------------------------------------------------
\* C10: a fit that raises leaves lambda and _coeff_hat as they were.
C10_FailedFitKeepsState ==
    [][ (call'.op = "fit" /\ raised' # "none")
        => (lam' = lam /\ coeff_hat' = coeff_hat) ]_vars

\* a fit has failed on an estimator that keeps the coefficients of an
\* earlier fit
C10_Witness ==
    /\ call.op = "fit"
    /\ raised # "none"
    /\ coeff_hat.kind = "exact"

====
